---- MODULE Spec2Model ----
(***************************************************************************)
(* Model of scripts/extract-subtitles.py: a sequential batch loop that     *)
(* fetches one transcript per video descriptor, skips descriptors whose    *)
(* output file already exists, isolates per-video failures and writes a    *)
(* failure log after the loop.                                             *)
(*                                                                         *)
(* The transcript service, the filesystem and the JSON encoder are the     *)
(* environment: every call to them either returns or raises.               *)
(***************************************************************************)
EXTENDS Integers, Sequences, FiniteSets, TLC

\* ----------------------------------------------------------------- bounds
\* longest input list (videos)
MaxVideos == 2
\* exceptions the environment raises in one behaviour (over all runs)
MaxRaises == 2
\* longest transcript collection the service returns under SelSpec
MaxCollLen == 2

\* ------------------------------------------------------- program constants
\* time.sleep(0.5) and time.sleep(1), in tenths of a time unit
SleepOk == 5
SleepErr == 10

\* ['ko', 'en'], the language list of both lookups
Languages == <<"ko", "en">>

\* the text of the progress line used for the failure record
NoSubtitles == "No subtitles"

NoTranscriptFound == "No transcript found"

\* --------------------------------------------------------------- the input
\* A transcript as the service describes it: its language code, whether it
\* is generated or manually created, and the snippets its fetch() returns,
\* each <<text, start, duration>>.
Transcript(lang, gen) ==
    [language_code |-> lang,
     is_generated  |-> gen,
     snippets      |-> << <<lang, 0, 1>>,
                          <<IF gen THEN "auto" ELSE "manual", 1, 2>> >>]

Ids == {"v1", "v2", "v3", "v4"}

\* reference/ear_opening_english_list.json holds descriptors from this pool
Descriptor(id) ==
    [id |-> id, title |-> "title-" \o id, url |-> "http://x/" \o id]

Pool == {Descriptor(id) : id \in Ids}

\* What the service holds for each video id in the runs of Spec.
Catalog ==
    [id \in Ids |->
        CASE id = "v1" -> <<Transcript("en", FALSE), Transcript("fr", TRUE)>>
          [] id = "v2" -> << >>
          [] id = "v3" -> <<Transcript("en", TRUE), Transcript("ko", TRUE),
                            Transcript("ko", FALSE)>>
          [] id = "v4" -> <<Transcript("fr", FALSE), Transcript("ja", TRUE)>>]

RECURSIVE SeqsUpTo(_, _)
SeqsUpTo(S, n) ==
    IF n = 0 THEN {<< >>}
    ELSE LET shorter == SeqsUpTo(S, n - 1)
         IN  shorter \cup {Append(s, x) : s \in shorter, x \in S}

\* ------------------------------------------------------------------- state
VARIABLES
    videos,          \* the loaded input list (line 12)
    catalog,         \* the service: video id -> transcript collection
    files,           \* output_dir: video id -> the file {video_id}.json
    failed_file,     \* reference/failed_subtitles.json
    pc,              \* position of the single control flow
    i,               \* enumerate index of the descriptor being processed
    success_count,
    fail_count,
    failed_videos,
    transcript_list, \* local, line 36
    transcript,      \* local, lines 40-48: << >> is None, <<t>> a transcript
    transcript_data, \* local, line 56
    printed,         \* the progress lines of this run
    trace,           \* the collaborator calls of this run, in order
    failWrites,      \* writes to the failure file path in this run
    raises,          \* exceptions raised so far by the environment
    prevFiles,       \* output_dir as the previous run left it
    prevPrinted      \* the progress lines of the previous run

vars == <<videos, catalog, files, failed_file, pc, i, success_count,
          fail_count, failed_videos, transcript_list, transcript,
          transcript_data, printed, trace, failWrites, raises, prevFiles,
          prevPrinted>>

input == <<videos, catalog>>
locals == <<transcript_list, transcript, transcript_data>>
counters == <<success_count, fail_count, failed_videos>>
previous == <<prevFiles, prevPrinted>>

\* ----------------------------------------------------------------- helpers
NoRecord ==
    [video_id |-> "", title |-> "", url |-> "", language |-> "",
     transcript |-> << >>]

\* a path without a file
NoFile == [exists |-> FALSE, complete |-> FALSE, content |-> NoRecord]

\* open(output_path, 'w') has created the file; json.dump has not finished:
\* the file holds a strict prefix of the serialisation
OpenedFile == [exists |-> TRUE, complete |-> FALSE, content |-> NoRecord]

WrittenFile(result) == [exists |-> TRUE, complete |-> TRUE, content |-> result]

video == videos[i + 1]
video_id == video.id
title == video.title

\* a cache check that looks at a path no file is ever written to
ExistsNever(id) == FALSE

\* os.path.exists(output_path)
Exists(id) == files[id].exists

\* transcript_list.find_generated_transcript(langs) and
\* transcript_list.find_manually_created_transcript(langs): the first language
\* of langs for which the collection holds a transcript of that kind; << >>
\* when the lookup raises because none matches
RECURSIVE FindTranscript(_, _, _)
FindTranscript(tl, generated, langs) ==
    IF langs = << >> THEN << >>
    ELSE LET hits == SelectSeq(tl, LAMBDA t : /\ t.is_generated = generated
                                              /\ t.language_code = Head(langs))
         IN  IF hits # << >> THEN <<Head(hits)>>
             ELSE FindTranscript(tl, generated, Tail(langs))

find_generated_transcript(tl) == FindTranscript(tl, TRUE, Languages)

find_manually_created_transcript(tl) == FindTranscript(tl, FALSE, Languages)

\* for t in transcript_list: transcript = t; break
FirstTranscript(tl) == IF tl = << >> THEN << >> ELSE <<tl[1]>>

\* fetched.to_raw_data(): each snippet as a dict
to_raw_data(fetched) ==
    [k \in 1..Len(fetched) |->
        [text |-> fetched[k][1], start |-> fetched[k][2],
         duration |-> fetched[k][3]]]

\* a record that takes the language of the collection's first transcript
ResultFirstLanguage(v, t, data) ==
    [video_id |-> v.id, title |-> v.title, url |-> v.url,
     language |-> catalog[v.id][1].language_code, transcript |-> data]

\* result = {...}, lines 59-65
Result(v, t, data) ==
    [video_id |-> v.id, title |-> v.title, url |-> v.url,
     language |-> t.language_code, transcript |-> data]

Call(name, res) == [i |-> i + 1, call |-> name, res |-> res, d |-> 0]
Sleep(d) == [i |-> i + 1, call |-> "sleep", res |-> "ok", d |-> d]
Line(marker) == [index |-> i + 1, total |-> Len(videos), marker |-> marker]

CanRaise == raises < MaxRaises

\* a handler that records the failure and lets the exception end the process
HandlerAborts(name, e) ==
    /\ printed' = Append(printed, Line("error"))
    /\ failed_videos' = Append(failed_videos,
                               [id |-> video_id, title |-> title, error |-> e])
    /\ fail_count' = fail_count + 1
    /\ trace' = Append(trace, Call(name, e))
    /\ raises' = raises + 1
    /\ pc' = "done"
    /\ UNCHANGED <<i, success_count>>

\* a handler without its time.sleep(1)
HandlerNoSleep(name, e) ==
    /\ printed' = Append(printed, Line("error"))
    /\ failed_videos' = Append(failed_videos,
                               [id |-> video_id, title |-> title, error |-> e])
    /\ fail_count' = fail_count + 1
    /\ trace' = Append(trace, Call(name, e))
    /\ raises' = raises + 1
    /\ i' = i + 1
    /\ pc' = "loop"
    /\ UNCHANGED success_count

\* except Exception as e: lines 80-84, entered from the call `name`
Handler(name, e) ==
    /\ printed' = Append(printed, Line("error"))
    /\ failed_videos' = Append(failed_videos,
                               [id |-> video_id, title |-> title, error |-> e])
    /\ fail_count' = fail_count + 1
    /\ trace' = trace \o <<Call(name, e), Sleep(SleepErr)>>
    /\ raises' = raises + 1
    /\ i' = i + 1
    /\ pc' = "loop"
    /\ UNCHANGED success_count

\* -------------------------------------------------------------------- Init
InitRun ==
    /\ pc = "loop"
    /\ i = 0
    /\ success_count = 0
    /\ fail_count = 0
    /\ failed_videos = << >>
    /\ transcript_list = << >>
    /\ transcript = << >>
    /\ transcript_data = << >>
    /\ printed = << >>
    /\ trace = << >>
    /\ failWrites = 0

InitDisk ==
    /\ files = [id \in Ids |-> NoFile]
    /\ failed_file = [exists |-> FALSE, content |-> << >>]
    /\ prevFiles = [id \in Ids |-> NoFile]
    /\ prevPrinted = << >>
    /\ raises = 0

Init ==
    /\ videos \in SeqsUpTo(Pool, MaxVideos)
    /\ catalog = Catalog
    /\ InitRun
    /\ InitDisk

\* ----------------------------------------------------------------- actions
\* a cache skip that forgets to count the descriptor
CacheSkipNoCount ==
    /\ pc = "loop"
    /\ i < Len(videos)
    /\ Exists(video_id)
    /\ printed' = Append(printed, Line("skip"))
    /\ i' = i + 1
    /\ UNCHANGED <<input, files, failed_file, pc, counters, locals, trace,
                   failWrites, raises, previous>>

\* lines 29-32: the output file exists
CacheSkip ==
    /\ pc = "loop"
    /\ i < Len(videos)
    /\ Exists(video_id)
    /\ printed' = Append(printed, Line("skip"))
    /\ success_count' = success_count + 1
    /\ i' = i + 1
    /\ UNCHANGED <<input, files, failed_file, pc, fail_count, failed_videos,
                   locals, trace, failWrites, raises, previous>>

\* line 36 returns
ListOk ==
    /\ pc = "loop"
    /\ i < Len(videos)
    /\ ~Exists(video_id)
    /\ transcript_list' = catalog[video_id]
    /\ trace' = Append(trace, Call("list", "ok"))
    /\ pc' = "find_generated"
    /\ UNCHANGED <<input, files, failed_file, i, counters, transcript,
                   transcript_data, printed, failWrites, raises, previous>>

\* line 36 raises
ListRaises ==
    /\ pc = "loop"
    /\ i < Len(videos)
    /\ ~Exists(video_id)
    /\ CanRaise
    /\ Handler("list", "network timeout")
    /\ UNCHANGED <<input, files, failed_file, locals, failWrites, previous>>

\* line 40 returns
FindGeneratedOk ==
    /\ pc = "find_generated"
    /\ find_generated_transcript(transcript_list) # << >>
    /\ transcript' = find_generated_transcript(transcript_list)
    /\ trace' = Append(trace, Call("find_generated", "ok"))
    /\ pc' = "check"
    /\ UNCHANGED <<input, files, failed_file, i, counters, transcript_list,
                   transcript_data, printed, failWrites, raises, previous>>

\* a failed generated lookup that goes straight to "any transcript"
FindGeneratedFailsToAny ==
    /\ pc = "find_generated"
    /\ find_generated_transcript(transcript_list) = << >>
    /\ trace' = Append(trace, Call("find_generated", "none"))
    /\ pc' = "iterate"
    /\ UNCHANGED <<input, files, failed_file, i, counters, locals, printed,
                   failWrites, raises, previous>>

\* line 40 raises, line 41 catches
FindGeneratedFails ==
    /\ pc = "find_generated"
    /\ find_generated_transcript(transcript_list) = << >>
    /\ trace' = Append(trace, Call("find_generated", "none"))
    /\ pc' = "find_manual"
    /\ UNCHANGED <<input, files, failed_file, i, counters, locals, printed,
                   failWrites, raises, previous>>

\* line 43 returns
FindManualOk ==
    /\ pc = "find_manual"
    /\ find_manually_created_transcript(transcript_list) # << >>
    /\ transcript' = find_manually_created_transcript(transcript_list)
    /\ trace' = Append(trace, Call("find_manual", "ok"))
    /\ pc' = "check"
    /\ UNCHANGED <<input, files, failed_file, i, counters, transcript_list,
                   transcript_data, printed, failWrites, raises, previous>>

\* line 43 raises, line 44 catches
FindManualFails ==
    /\ pc = "find_manual"
    /\ find_manually_created_transcript(transcript_list) = << >>
    /\ trace' = Append(trace, Call("find_manual", "none"))
    /\ pc' = "iterate"
    /\ UNCHANGED <<input, files, failed_file, i, counters, locals, printed,
                   failWrites, raises, previous>>

\* lines 46-49
IterateFirst ==
    /\ pc = "iterate"
    /\ transcript' = FirstTranscript(transcript_list)
    /\ trace' = Append(trace, Call("iterate",
                    IF transcript_list = << >> THEN "none" ELSE "ok"))
    /\ pc' = "check"
    /\ UNCHANGED <<input, files, failed_file, i, counters, transcript_list,
                   transcript_data, printed, failWrites, raises, previous>>

\* lines 51-56 return
FetchOk ==
    /\ pc = "check"
    /\ transcript # << >>
    /\ transcript_data' = to_raw_data(transcript[1].snippets)
    /\ trace' = Append(trace, Call("fetch", "ok"))
    /\ pc' = "open"
    /\ UNCHANGED <<input, files, failed_file, i, counters, transcript_list,
                   transcript, printed, failWrites, raises, previous>>

\* line 53 raises
FetchRaises ==
    /\ pc = "check"
    /\ transcript # << >>
    /\ CanRaise
    /\ Handler("fetch", "fetch failed")
    /\ UNCHANGED <<input, files, failed_file, locals, failWrites, previous>>

\* lines 72-78: transcript is None
NoTranscript ==
    /\ pc = "check"
    /\ transcript = << >>
    /\ printed' = Append(printed, Line("none"))
    /\ failed_videos' = Append(failed_videos,
           [id |-> video_id, title |-> title, error |-> NoTranscriptFound])
    /\ fail_count' = fail_count + 1
    /\ trace' = Append(trace, Sleep(SleepOk))
    /\ i' = i + 1
    /\ pc' = "loop"
    /\ UNCHANGED <<input, files, failed_file, success_count, locals,
                   failWrites, raises, previous>>

\* line 67: open(output_path, 'w') returns
OpenOk ==
    /\ pc = "open"
    /\ files' = [files EXCEPT ![video_id] = OpenedFile]
    /\ trace' = Append(trace, Call("open", "ok"))
    /\ pc' = "dump"
    /\ UNCHANGED <<input, failed_file, i, counters, locals, printed,
                   failWrites, raises, previous>>

\* line 67: open raises
OpenRaises ==
    /\ pc = "open"
    /\ CanRaise
    /\ Handler("open", "open failed")
    /\ UNCHANGED <<input, files, failed_file, locals, failWrites, previous>>

\* lines 68-78: json.dump returns
DumpOk ==
    /\ pc = "dump"
    /\ files' = [files EXCEPT ![video_id] =
                    WrittenFile(Result(video, transcript[1], transcript_data))]
    /\ printed' = Append(printed, Line("ok"))
    /\ success_count' = success_count + 1
    /\ trace' = trace \o <<Call("dump", "ok"), Sleep(SleepOk)>>
    /\ i' = i + 1
    /\ pc' = "loop"
    /\ UNCHANGED <<input, failed_file, fail_count, failed_videos, locals,
                   failWrites, raises, previous>>

\* line 68: json.dump raises; the with block closes the opened file
DumpRaises ==
    /\ pc = "dump"
    /\ CanRaise
    /\ Handler("dump", "write failed")
    /\ UNCHANGED <<input, files, failed_file, locals, failWrites, previous>>

\* a summary that writes the failure file without looking at the list
SummaryAlwaysWrites ==
    /\ pc = "loop"
    /\ i = Len(videos)
    /\ printed' = Append(printed, [index |-> success_count,
                                   total |-> fail_count, marker |-> "summary"])
    /\ failed_file' = [exists |-> TRUE, content |-> failed_videos]
    /\ failWrites' = failWrites + 1
    /\ pc' = "done"
    /\ UNCHANGED <<input, files, i, counters, locals, trace, raises, previous>>

\* lines 86-92
Summary ==
    /\ pc = "loop"
    /\ i = Len(videos)
    /\ printed' = Append(printed, [index |-> success_count,
                                   total |-> fail_count, marker |-> "summary"])
    /\ IF failed_videos # << >>
       THEN /\ failed_file' = [exists |-> TRUE, content |-> failed_videos]
            /\ failWrites' = failWrites + 1
       ELSE UNCHANGED <<failed_file, failWrites>>
    /\ pc' = "done"
    /\ UNCHANGED <<input, files, i, counters, locals, trace, raises, previous>>

\* the script is started again on the same input and output directory
NextRun ==
    /\ pc = "done"
    /\ prevFiles' = files
    /\ prevPrinted' = printed
    /\ pc' = "loop"
    /\ i' = 0
    /\ success_count' = 0
    /\ fail_count' = 0
    /\ failed_videos' = << >>
    /\ transcript_list' = << >>
    /\ transcript' = << >>
    /\ transcript_data' = << >>
    /\ printed' = << >>
    /\ trace' = << >>
    /\ failWrites' = 0
    /\ UNCHANGED <<input, files, failed_file, raises>>

Step ==
    \/ CacheSkip
    \/ ListOk
    \/ ListRaises
    \/ FindGeneratedOk
    \/ FindGeneratedFails
    \/ FindManualOk
    \/ FindManualFails
    \/ IterateFirst
    \/ FetchOk
    \/ FetchRaises
    \/ NoTranscript
    \/ OpenOk
    \/ OpenRaises
    \/ DumpOk
    \/ DumpRaises
    \/ Summary

Next == Step \/ NextRun

Spec == Init /\ [][Next]_vars

\* A started run is scheduled until it ends: nothing else runs in the process.
\* Starting the script again is up to the user.
FairSpec == Spec /\ WF_vars(Step)

\* Runs over one descriptor whose transcript collection is any sequence of at
\* most MaxCollLen transcripts: the inputs of the transcript selection.
Transcripts == {Transcript(lang, gen) : lang \in {"ko", "en", "fr"},
                                        gen \in BOOLEAN}

SelInit ==
    /\ videos = <<Descriptor("v1")>>
    /\ catalog \in {[id \in Ids |-> c] : c \in SeqsUpTo(Transcripts, MaxCollLen)}
    /\ InitRun
    /\ InitDisk

SelSpec == SelInit /\ [][Next]_vars

\* ------------------------------------------------- vocabulary of the claims
n == Len(videos)

\* the collaborator calls made for the j-th descriptor in this run
CallsOf(j) == SelectSeq(trace, LAMBDA c : c.i = j)

NamesOf(j) == [k \in 1..Len(CallsOf(j)) |-> CallsOf(j)[k].call]

\* the pauses taken for the j-th descriptor in this run
PausesOf(j) ==
    LET s == SelectSeq(CallsOf(j), LAMBDA c : c.call = "sleep")
    IN  [k \in 1..Len(s) |-> s[k].d]

\* descriptors whose progress line is out
Visited == 1..(IF pc = "done" THEN n ELSE Len(printed))

Markers(ms) == {j \in Visited : printed[j].marker \in ms}

HasFailureRecord(id) ==
    \E k \in 1..Len(failed_videos) : failed_videos[k].id = id

ProgressMarkers == {"skip", "ok", "none", "error"}

\* ------------------------------------------------------------------ claims

\* C1: at the end of a run, every descriptor that was not skipped has either
\* its output file or a failure record for its id, never both and never
\* neither, whatever the kind of failure and also with repeated ids.
C1_ExactlyOne ==
    pc = "done" =>
        \A j \in Markers({"ok", "none", "error"}) :
            files[videos[j].id].exists # HasFailureRecord(videos[j].id)

\* C2: a failure while processing one descriptor does not stop the loop: the
\* run can always take its next step, every later descriptor gets its own
\* progress line and every non-skipped one its listing call, the summary is
\* reached, and the successes and failures counted over the non-skipped
\* descriptors add up to their number.
C2_Isolation ==
    /\ pc # "done" => ENABLED Step
    /\ pc = "done" =>
        /\ Len(printed) = n + 1
        /\ printed[n + 1].marker = "summary"
        /\ \A j \in 1..n : /\ printed[j].index = j
                            /\ printed[j].marker \in ProgressMarkers
        /\ \A j \in Markers(ProgressMarkers \ {"skip"}) :
                /\ CallsOf(j) # << >>
                /\ CallsOf(j)[1].call = "list"
        /\ success_count = Cardinality(Markers({"skip", "ok"}))
        /\ fail_count = Cardinality(Markers({"none", "error"}))
        /\ (success_count - Cardinality(Markers({"skip"}))) + fail_count
              = n - Cardinality(Markers({"skip"}))

\* a run ended in which a descriptor was fetched after an earlier one raised
C2_Witness ==
    /\ pc = "done"
    /\ \E k \in Markers({"error"}) : \E j \in Markers({"ok"}) : k < j

\* C3: in a run that follows another on the same input and output directory,
\* every file the previous run left is unchanged, every descriptor that
\* succeeded then is reported as a skip with no collaborator call at all, and
\* the only descriptors the service is called for are ones that failed then.
C3_Resumable ==
    prevPrinted # << >> =>
        /\ \A id \in Ids : prevFiles[id].exists => files[id] = prevFiles[id]
        /\ \A j \in Visited :
              prevPrinted[j].marker \in {"ok", "skip"} =>
                  /\ printed[j].marker = "skip"
                  /\ CallsOf(j) = << >>
        /\ \A k \in 1..Len(trace) :
              prevPrinted[trace[k].i].marker \in {"none", "error"}

\* a second run ended that skipped one descriptor and fetched one that had
\* failed in the first run
C3_Witness ==
    /\ prevPrinted # << >>
    /\ pc = "done"
    /\ Markers({"skip"}) # {}
    /\ \E j \in Markers({"ok"}) : prevPrinted[j].marker = "error"

\* C4: an output file is written at most once: a file that exists is never
\* changed, a descriptor whose file exists is skipped with no collaborator
\* call and no failure record, and every file that exists holds a complete
\* record from a successful fetch.
C4_WriteOnce ==
    /\ \A id \in Ids : prevFiles[id].exists => files[id] = prevFiles[id]
    /\ \A j \in Markers({"skip"}) : CallsOf(j) = << >>
    /\ Len(failed_videos) = Cardinality(Markers({"none", "error"}))
    /\ pc \in {"loop", "done"} =>
          \A id \in Ids : files[id].exists => files[id].complete

\* C10: at every loop boundary fail_count is the length of the failure list,
\* success_count + fail_count is the number of descriptors visited, and the
\* progress lines are those of descriptors 1..i in order; the summary reports
\* counts that add up to n.
C10_Counters ==
    /\ i <= n
    /\ fail_count = Len(failed_videos)
    /\ pc # "done" =>
          /\ success_count + fail_count = i
          /\ Len(printed) = i
          /\ \A j \in 1..i : printed[j].index = j
    /\ \A k \in 1..Len(trace) :
          /\ trace[k].i \in 1..n
          /\ k > 1 => trace[k - 1].i <= trace[k].i
    /\ pc = "done" =>
          /\ i = n
          /\ success_count + fail_count = n
          /\ printed[n + 1] = [index |-> success_count, total |-> fail_count,
                               marker |-> "summary"]

\* C10: provided every collaborator call returns or raises, a started run
\* ends, and the counters agree with the descriptors visited all along.
C10_Terminates ==
    /\ []C10_Counters
    /\ (pc # "done") ~> (pc = "done")

\* a run over two descriptors or more ended with a success and a failure
C10_Witness ==
    /\ pc = "done"
    /\ n >= 2
    /\ success_count >= 1
    /\ fail_count >= 1

HasKind(tl, gen) ==
    \E k \in 1..Len(tl) : /\ tl[k].is_generated = gen
                          /\ tl[k].language_code \in {"ko", "en"}

\* Korean before English, among the transcripts of one kind
Preferred(tl, gen) ==
    IF \E k \in 1..Len(tl) : /\ tl[k].is_generated = gen
                             /\ tl[k].language_code = "ko"
    THEN Transcript("ko", gen)
    ELSE Transcript("en", gen)

SpecExample == <<Transcript("en", FALSE), Transcript("fr", TRUE)>>

\* C5: the selection is an ordered fallback that stops at the first success:
\* a generated ko/en transcript (ko first); only when there is none, a
\* manually created ko/en transcript (ko first); only when there is none
\* either, the first transcript of the collection; none for an empty
\* collection. No later lookup is made once one succeeded, and a collection
\* of a manual "en" and a generated "fr" transcript yields the manual "en".
C5_Fallback ==
    pc = "check" =>
        LET tl == transcript_list
            names == NamesOf(i + 1)
        IN  /\ tl = catalog[video_id]
            /\ IF HasKind(tl, TRUE)
               THEN /\ transcript = <<Preferred(tl, TRUE)>>
                    /\ names = <<"list", "find_generated">>
               ELSE IF HasKind(tl, FALSE)
               THEN /\ transcript = <<Preferred(tl, FALSE)>>
                    /\ names = <<"list", "find_generated", "find_manual">>
               ELSE /\ transcript = IF tl = << >> THEN << >> ELSE <<tl[1]>>
                    /\ names = <<"list", "find_generated", "find_manual",
                                 "iterate">>
            /\ tl = SpecExample => transcript = <<Transcript("en", FALSE)>>

\* the selection has run on the collection of a manual "en" and a generated
\* "fr" transcript and stopped after the manual lookup
C5_Witness ==
    /\ pc = "check"
    /\ transcript_list = SpecExample
    /\ NamesOf(i + 1) = <<"list", "find_generated", "find_manual">>

\* C6: when the listing returned an empty collection, the descriptor ends with
\* one failure record {id, title, "No transcript found"} appended, fail_count
\* one higher, success_count and the output directory unchanged, and no fetch,
\* open or dump call made for it.
C6_EmptyCollection ==
    [][(pc = "check" /\ transcript_list = << >>) =>
          /\ failed_videos' = Append(failed_videos,
                 [id |-> video_id, title |-> title,
                  error |-> "No transcript found"])
          /\ fail_count' = fail_count + 1
          /\ success_count' = success_count
          /\ files' = files
          /\ printed' = Append(printed,
                 [index |-> i + 1, total |-> n, marker |-> "none"])
          /\ \A k \in 1..Len(trace') :
                trace'[k].i = i + 1 =>
                    trace'[k].call \notin {"fetch", "open", "dump"}
          /\ i' = i + 1
          /\ pc' = "loop"]_vars

\* a descriptor whose collection is empty has just been processed
C6_Witness ==
    /\ pc = "loop"
    /\ i >= 1
    /\ printed[i].marker = "none"
    /\ catalog[videos[i].id] = << >>
    /\ failed_videos # << >>
    /\ failed_videos[Len(failed_videos)].id = videos[i].id

\* the error text of the j-th descriptor in this run, "" when it did not fail
ErrorOf(j) ==
    LET cs == CallsOf(j)
        raised == SelectSeq(cs, LAMBDA c : c.res \notin {"ok", "none"})
    IN  IF raised # << >> THEN raised[1].res
        ELSE IF \E k \in 1..Len(cs) : /\ cs[k].call = "iterate"
                                      /\ cs[k].res = "none"
        THEN "No transcript found"
        ELSE ""

\* the failure records of descriptors 1..j, in processing order
RECURSIVE ExpectedFailures(_)
ExpectedFailures(j) ==
    IF j = 0 THEN << >>
    ELSE IF ErrorOf(j) = "" THEN ExpectedFailures(j - 1)
    ELSE Append(ExpectedFailures(j - 1),
                [id |-> videos[j].id, title |-> videos[j].title,
                 error |-> ErrorOf(j)])

\* C7: the failure file is written only after the loop, once, and only when
\* a descriptor failed in this run; it then holds one entry per failed
\* descriptor in processing order with its id, title and error text; with no
\* failure the path is not written at all.
C7_FailureLog ==
    /\ pc # "done" => failWrites = 0
    /\ pc = "done" =>
        /\ failWrites = IF ExpectedFailures(n) = << >> THEN 0 ELSE 1
        /\ failWrites = 1 =>
              failed_file = [exists |-> TRUE, content |-> ExpectedFailures(n)]
        /\ (failWrites = 0 /\ prevPrinted = << >>) => ~failed_file.exists

\* the run of the example ended: two descriptors failed, the first with "No
\* transcript found", the second with "network timeout"
C7_Witness ==
    /\ pc = "done"
    /\ failed_file.exists
    /\ Len(failed_file.content) = 2
    /\ failed_file.content[1].error = "No transcript found"
    /\ failed_file.content[2].error = "network timeout"

\* C8, as claimed: one pause of 0.5 after a success, one of 1.0 after a
\* failure of any kind, "No transcript found" included, none after a skip.
C8_PauseByOutcome ==
    \A j \in Visited :
        PausesOf(j) = CASE printed[j].marker = "skip" -> << >>
                        [] printed[j].marker = "ok" -> <<5>>
                        [] OTHER -> <<10>>

\* C8, amended: one pause of 0.5 after a success and after "No transcript
\* found", one of 1.0 after an exception, none after a skip; the pause is the
\* last thing done for its descriptor, before any call for the next one.
C8_PauseByPath ==
    \A j \in Visited :
        /\ PausesOf(j) = CASE printed[j].marker = "skip" -> << >>
                            [] printed[j].marker = "ok" -> <<5>>
                            [] printed[j].marker = "none" -> <<5>>
                            [] OTHER -> <<10>>
        /\ printed[j].marker # "skip" =>
              /\ CallsOf(j)[Len(CallsOf(j))].call = "sleep"
              /\ \A k \in 1..Len(trace) :
                    trace[k].i > j =>
                        \E m \in 1..(k - 1) : /\ trace[m].i = j
                                              /\ trace[m].call = "sleep"

\* a run ended with a "No transcript found" descriptor, a raised exception
\* and a listing call made after a pause
C8_Witness ==
    /\ pc = "done"
    /\ \E j \in Markers({"none"}) : PausesOf(j) = <<5>>
    /\ \E j \in Markers({"error"}) : PausesOf(j) = <<10>>
    /\ \E k \in 2..Len(trace) : /\ trace[k].call = "list"
                                 /\ trace[k - 1].call = "sleep"

\* C9: the file written for a successful fetch holds exactly the fields
\* video_id, title, url, language and transcript: the first three of the
\* descriptor being processed, the language code of the selected transcript,
\* and the segments of that transcript's fetch, unmodified and in order.
C9_OutputShape ==
    (pc = "loop" /\ i >= 1 /\ printed[i].marker = "ok") =>
        LET v == videos[i]
            t == transcript[1]
            f == files[v.id]
        IN  /\ f.exists
            /\ f.complete
            /\ DOMAIN f.content =
                  {"video_id", "title", "url", "language", "transcript"}
            /\ f.content.video_id = v.id
            /\ f.content.title = v.title
            /\ f.content.url = v.url
            /\ t \in {catalog[v.id][k] : k \in 1..Len(catalog[v.id])}
            /\ f.content.language = t.language_code
            /\ Len(f.content.transcript) = Len(t.snippets)
            /\ \A k \in 1..Len(t.snippets) :
                  f.content.transcript[k] =
                      [text |-> t.snippets[k][1], start |-> t.snippets[k][2],
                       duration |-> t.snippets[k][3]]

\* the second of two different descriptors has just been written, with a
\* selected transcript that is not the first of its collection
C9_Witness ==
    /\ pc = "loop"
    /\ i = 2
    /\ printed[2].marker = "ok"
    /\ videos[1].id # videos[2].id
    /\ videos[2].id = "v3"
    /\ files["v3"].content.language = "ko"

====
